---- MODULE Spec2Model ----
(***************************************************************************)
(* MedBill Guard AI: the text-to-record extraction of app.py               *)
(* (extract_structured_data) and the extraction and validation engine of   *)
(* medbill_guard_api.py (extract_key_details, validate_bill).              *)
(*                                                                         *)
(* A text is a sequence of characters (one-character strings).  A float is *)
(* kept exactly as an integer number of hundredths, so every input token   *)
(* carries at most two fraction digits.                                    *)
(***************************************************************************)
EXTENDS Integers, Sequences, FiniteSets, TLC

----------------------------------------------------------------------------
(* Characters and the character classes of Python's re module.             *)

Digits == <<"0", "1", "2", "3", "4", "5", "6", "7", "8", "9">>

UpperCase == <<"A", "B", "C", "D", "E", "F", "G", "H", "I", "J", "K", "L", "M",
               "N", "O", "P", "Q", "R", "S", "T", "U", "V", "W", "X", "Y", "Z">>

LowerCase == <<"a", "b", "c", "d", "e", "f", "g", "h", "i", "j", "k", "l", "m",
               "n", "o", "p", "q", "r", "s", "t", "u", "v", "w", "x", "y", "z">>

Range(f) == {f[x] : x \in DOMAIN f}

DigitChars == Range(Digits)

LetterChars == Range(UpperCase) \cup Range(LowerCase)

\* \d
IsDigit(c) == c \in DigitChars

\* [A-Za-z]
IsLetter(c) == c \in LetterChars

\* \s
IsSpace(c) == c \in {" ", "\n", "\t"}

\* \w, the class \b is defined by
IsWord(c) == IsDigit(c) \/ IsLetter(c) \/ c = "_"

DigitVal(c) == (CHOOSE k \in DOMAIN Digits : Digits[k] = c) - 1

\* str.lower() on one character
LowerChar(c) ==
    IF c \in Range(UpperCase)
    THEN LowerCase[CHOOSE k \in DOMAIN UpperCase : UpperCase[k] = c]
    ELSE c

\* str.lower()
Lower(s) == [k \in DOMAIN s |-> LowerChar(s[k])]

\* s[p:p+len(w)] == w
MatchAt(s, p, w) ==
    /\ p + Len(w) - 1 <= Len(s)
    /\ \A k \in 1..Len(w) : s[p + k - 1] = w[k]

\* w in s
Contains(s, w) == \E p \in 1..(Len(s) - Len(w) + 1) : MatchAt(s, p, w)

\* str.strip()
Strip(s) ==
    IF \A k \in DOMAIN s : IsSpace(s[k]) THEN <<>>
    ELSE LET a == CHOOSE k \in DOMAIN s :
                      ~IsSpace(s[k]) /\ \A j \in 1..(k - 1) : IsSpace(s[j])
             b == CHOOSE k \in DOMAIN s :
                      ~IsSpace(s[k]) /\ \A j \in (k + 1)..Len(s) : IsSpace(s[j])
         IN  SubSeq(s, a, b)

\* index of the next "\n" at or after p, Len(s)+1 when there is none
LineEnd(s, p) ==
    CHOOSE e \in p..(Len(s) + 1) :
        /\ e = Len(s) + 1 \/ s[e] = "\n"
        /\ \A r \in p..(e - 1) : s[r] # "\n"

\* str.split("\n")
RECURSIVE SplitFrom(_, _)
SplitFrom(s, p) ==
    LET e == LineEnd(s, p)
    IN  IF e > Len(s) THEN <<SubSeq(s, p, Len(s))>>
        ELSE <<SubSeq(s, p, e - 1)>> \o SplitFrom(s, e + 1)

Split(s) == SplitFrom(s, 1)

\* last index of the run of characters of class \s starting at p (p-1: none)
RECURSIVE SpaceRunEnd(_, _)
SpaceRunEnd(s, p) ==
    IF p <= Len(s) /\ IsSpace(s[p]) THEN SpaceRunEnd(s, p + 1) ELSE p - 1

\* last index of the run of digits starting at p (p-1 when there is none)
RECURSIVE DigitRunEnd(_, _)
DigitRunEnd(s, p) ==
    IF p <= Len(s) /\ IsDigit(s[p]) THEN DigitRunEnd(s, p + 1) ELSE p - 1

----------------------------------------------------------------------------
(* Numbers.                                                                *)

RECURSIVE IntVal(_)
IntVal(ds) ==
    IF ds = <<>> THEN 0
    ELSE 10 * IntVal(SubSeq(ds, 1, Len(ds) - 1)) + DigitVal(ds[Len(ds)])

\* float(tok) of a token digits[.digits], in hundredths
Float(tok) ==
    LET e    == DigitRunEnd(tok, 1)
        frac == SubSeq(tok, e + 2, Len(tok))
        two  == SubSeq(frac \o <<"0", "0">>, 1, 2)
    IN  100 * IntVal(SubSeq(tok, 1, e)) + IntVal(two)

\* max(numbers) of a non-empty list
Max(ns) == CHOOSE m \in Range(ns) : \A n \in Range(ns) : n <= m

\* the match of \d+\.\d+|\d+ starting at the digit at p ends here
NumTokEnd(s, p) ==
    LET e == DigitRunEnd(s, p)
    IN  IF e + 2 <= Len(s) /\ s[e + 1] = "." /\ IsDigit(s[e + 2])
        THEN DigitRunEnd(s, e + 2)
        ELSE e

\* re.findall(r"\d+\.\d+|\d+", s)
\* index of the first digit at or after p, 0 when there is none
NextDigit(s, p) ==
    IF \E q \in p..Len(s) : IsDigit(s[q])
    THEN CHOOSE q \in p..Len(s) : IsDigit(s[q]) /\ \A r \in p..(q - 1) : ~IsDigit(s[r])
    ELSE 0

RECURSIVE FindNumbersFrom(_, _)
FindNumbersFrom(s, p) ==
    LET q == NextDigit(s, p)
        e == NumTokEnd(s, q)
    IN  IF q = 0 THEN <<>>
        ELSE <<SubSeq(s, q, e)>> \o FindNumbersFrom(s, e + 1)

FindNumbers(s) == FindNumbersFrom(s, 1)

\* [float(n) for n in numbers]
Floats(toks) == [k \in DOMAIN toks |-> Float(toks[k])]

\* re.sub(r"\d+\.\d+|\d+", "", s)
RECURSIVE RemoveNumbersFrom(_, _)
RemoveNumbersFrom(s, p) ==
    LET q == NextDigit(s, p)
    IN  IF q = 0 THEN SubSeq(s, p, Len(s))
        ELSE SubSeq(s, p, q - 1) \o RemoveNumbersFrom(s, NumTokEnd(s, q) + 1)

RemoveNumbers(s) == RemoveNumbersFrom(s, 1)

----------------------------------------------------------------------------
(* The regular expressions of app.py and medbill_guard_api.py.  Each is    *)
(* matched the way re matches it: leftmost start, greedy quantifiers.     *)

\* last index of the run of letters starting at p (p-1 when there is none)
RECURSIVE LetterRunEnd(_, _)
LetterRunEnd(s, p) ==
    IF p <= Len(s) /\ IsLetter(s[p]) THEN LetterRunEnd(s, p + 1) ELSE p - 1

\* \b just after index e, where s[e] is a word character
BoundaryAfter(s, e) == e = Len(s) \/ ~IsWord(s[e + 1])

IsDateSep(s, p) == p <= Len(s) /\ s[p] \in {"/", "-"}

\* \b\d{1,2}[/-]\d{1,2}[/-]\d{2,4}\b matched at p: index of its last
\* character, 0 when it does not match
NumericDateEnd(s, p) ==
    LET e1 == DigitRunEnd(s, p)
        e2 == DigitRunEnd(s, e1 + 2)
        e3 == DigitRunEnd(s, e2 + 2)
    IN  IF /\ e1 - p + 1 \in 1..2
           /\ IsDateSep(s, e1 + 1)
           /\ e2 - (e1 + 2) + 1 \in 1..2
           /\ IsDateSep(s, e2 + 1)
           /\ e3 - (e2 + 2) + 1 \in 2..4
           /\ BoundaryAfter(s, e3)
        THEN e3 ELSE 0

\* \b\d{1,2}\s+[A-Za-z]+\s+\d{4}\b matched at p
NamedDateEnd(s, p) ==
    LET e1 == DigitRunEnd(s, p)
        w1 == SpaceRunEnd(s, e1 + 1)
        l  == LetterRunEnd(s, w1 + 1)
        w2 == SpaceRunEnd(s, l + 1)
        e4 == DigitRunEnd(s, w2 + 1)
    IN  IF /\ e1 - p + 1 \in 1..2
           /\ w1 >= e1 + 1
           /\ l >= w1 + 1
           /\ w2 >= l + 1
           /\ e4 - (w2 + 1) + 1 = 4
           /\ BoundaryAfter(s, e4)
        THEN e4 ELSE 0

DateEnd(s, p) ==
    IF ~(IsDigit(s[p]) /\ (p = 1 \/ ~IsWord(s[p - 1]))) THEN 0
    ELSE IF NumericDateEnd(s, p) > 0 THEN NumericDateEnd(s, p)
    ELSE NamedDateEnd(s, p)

\* re.search of the date pattern: group(0), or <<>> when there is no match
\* (a match is never empty)
DateSearch(s) ==
    IF \E p \in DOMAIN s : DateEnd(s, p) > 0
    THEN LET p == CHOOSE q \in DOMAIN s :
                      DateEnd(s, q) > 0 /\ \A r \in 1..(q - 1) : DateEnd(s, r) = 0
         IN  SubSeq(s, p, DateEnd(s, p))
    ELSE <<>>

IsLabelSep(s, p) == p <= Len(s) /\ s[p] \in {":", "-"}

\* label[:\-]\s*(.*) matches at p
LabelAt(s, p, label) == MatchAt(s, p, label) /\ IsLabelSep(s, p + Len(label))

\* re.search(r"<label>[:\-]\s*(.*)", s): found, and group(1)
LabelSearch(s, label) ==
    IF \E p \in DOMAIN s : LabelAt(s, p, label)
    THEN LET p == CHOOSE q \in DOMAIN s :
                      LabelAt(s, q, label) /\ \A r \in 1..(q - 1) : ~LabelAt(s, r, label)
             g == SpaceRunEnd(s, p + Len(label) + 1) + 1
         IN  [found |-> TRUE, group |-> SubSeq(s, g, LineEnd(s, g) - 1)]
    ELSE [found |-> FALSE, group |-> <<>>]

\* where the group (\d+\.?\d*) of label[:\-]?\s*(\d+\.?\d*) starts when the
\* label is matched at p
AmountStart(s, p, label) ==
    LET q == p + Len(label)
    IN  SpaceRunEnd(s, IF IsLabelSep(s, q) THEN q + 1 ELSE q) + 1

AmountAt(s, p, label) ==
    /\ MatchAt(s, p, label)
    /\ AmountStart(s, p, label) <= Len(s)
    /\ IsDigit(s[AmountStart(s, p, label)])

\* the match of \d+\.?\d* starting at the digit at d ends here
DecimalEnd(s, d) ==
    LET e == DigitRunEnd(s, d)
    IN  IF e + 1 <= Len(s) /\ s[e + 1] = "." THEN DigitRunEnd(s, e + 2) ELSE e

\* re.search(r"<label>[:\-]?\s*(\d+\.?\d*)", s): found, and float(group(1))
AmountSearch(s, label) ==
    IF \E p \in DOMAIN s : AmountAt(s, p, label)
    THEN LET p == CHOOSE q \in DOMAIN s :
                      AmountAt(s, q, label) /\ \A r \in 1..(q - 1) : ~AmountAt(s, r, label)
             d == AmountStart(s, p, label)
         IN  [found |-> TRUE, value |-> Float(SubSeq(s, d, DecimalEnd(s, d)))]
    ELSE [found |-> FALSE, value |-> 0]

\* [A-Za-z ]
IsNameChar(c) == IsLetter(c) \/ c = " "

\* \d+\s+[A-Za-z ]+\s+\d+\.?\d* matched at the digit at p: index of its last
\* character, 0 when it does not match.  \d+ takes the digit run, the text
\* up to the next digit has to split into \s+, [A-Za-z ]+ and \s+.
ItemEnd(s, p) ==
    LET e == DigitRunEnd(s, p)
        d == CHOOSE q \in (e + 1)..(Len(s) + 1) :
                 /\ q = Len(s) + 1 \/ ~(IsSpace(s[q]) \/ IsNameChar(s[q]))
                 /\ \A r \in (e + 1)..(q - 1) : IsSpace(s[r]) \/ IsNameChar(s[r])
    IN  IF /\ d <= Len(s)
           /\ IsDigit(s[d])
           /\ \E a \in (e + 1)..(d - 3) : \E b \in (a + 1)..(d - 2) :
                 /\ \A r \in (e + 1)..a : IsSpace(s[r])
                 /\ \A r \in (a + 1)..b : IsNameChar(s[r])
                 /\ \A r \in (b + 1)..(d - 1) : IsSpace(s[r])
        THEN DecimalEnd(s, d) ELSE 0

\* re.findall(r"\d+\s+[A-Za-z ]+\s+\d+\.?\d*", s)
ItemAt(s, p) == IsDigit(s[p]) /\ ItemEnd(s, p) > 0

RECURSIVE FindItemsFrom(_, _)
FindItemsFrom(s, p) ==
    IF \E q \in p..Len(s) : ItemAt(s, q)
    THEN LET q == CHOOSE r \in p..Len(s) :
                      ItemAt(s, r) /\ \A j \in p..(r - 1) : ~ItemAt(s, j)
         IN  <<SubSeq(s, q, ItemEnd(s, q))>> \o FindItemsFrom(s, ItemEnd(s, q) + 1)
    ELSE <<>>

FindItems(s) == FindItemsFrom(s, 1)

----------------------------------------------------------------------------
(* String literals of the two programs.                                    *)

NotDetected == <<"N", "o", "t", " ", "D", "e", "t", "e", "c", "t", "e", "d">>

NotFound == <<"N", "o", "t", " ", "F", "o", "u", "n", "d">>

KwPatient == <<"p", "a", "t", "i", "e", "n", "t">>

KwHospital == <<"h", "o", "s", "p", "i", "t", "a", "l">>

KwClinic == <<"c", "l", "i", "n", "i", "c">>

KwMedical == <<"m", "e", "d", "i", "c", "a", "l">>

KwGst == <<"g", "s", "t">>

KwTotal == <<"t", "o", "t", "a", "l">>

KwGrand == <<"g", "r", "a", "n", "d">>

KwNet == <<"n", "e", "t">>

LblPatientName == <<"P", "a", "t", "i", "e", "n", "t", " ", "N", "a", "m", "e">>

LblHospitalName == <<"H", "o", "s", "p", "i", "t", "a", "l", " ", "N", "a", "m", "e">>

LblDate == <<"D", "a", "t", "e">>

LblGST == <<"G", "S", "T">>

LblTotal == <<"T", "o", "t", "a", "l">>

LblSubTotal == <<"S", "u", "b", " ", "T", "o", "t", "a", "l">>

----------------------------------------------------------------------------
(* Inputs: an OCR text is up to MaxFrags fragments joined by "\n".         *)

MaxFrags == 2

Fragments ==
    << \* ''
       <<>>,
       \* 'Total: 500'
       <<"T", "o", "t", "a", "l", ":", " ", "5", "0", "0">>,
       \* 'Sub Total: 100'
       <<"S", "u", "b", " ", "T", "o", "t", "a", "l", ":", " ", "1", "0", "0">>,
       \* '2 Para 10.00 20.00'
       <<"2", " ", "P", "a", "r", "a", " ", "1", "0", ".", "0", "0", " ", "2", "0", ".", "0", "0">>,
       \* '3 Para 10.00 30.00'
       <<"3", " ", "P", "a", "r", "a", " ", "1", "0", ".", "0", "0", " ", "3", "0", ".", "0", "0">>,
       \* '5 Swab 20.00 1000.00'
       <<"5", " ", "S", "w", "a", "b", " ", "2", "0", ".", "0", "0", " ", "1", "0", "0", "0", ".", "0", "0">>,
       \* '1 Gauze 0 0'
       <<"1", " ", "G", "a", "u", "z", "e", " ", "0", " ", "0">>,
       \* 'Patient Name: Ann\nHospital Name: City\nDate: 12/01/2024'
       <<"P", "a", "t", "i", "e", "n", "t", " ", "N", "a", "m", "e", ":", " ", "A", "n", "n", "\n", "H", "o", "s", "p", "i", "t", "a", "l", " ", "N", "a", "m", "e", ":", " ", "C", "i", "t", "y", "\n", "D", "a", "t", "e", ":", " ", "1", "2", "/", "0", "1", "/", "2", "0", "2", "4">>,
       \* 'Patient Name: Bob'
       <<"P", "a", "t", "i", "e", "n", "t", " ", "N", "a", "m", "e", ":", " ", "B", "o", "b">>,
       \* 'GST: 18\nTotal: 118'
       <<"G", "S", "T", ":", " ", "1", "8", "\n", "T", "o", "t", "a", "l", ":", " ", "1", "1", "8">>,
       \* 'GST: 18\nTotal: 118\n2 Para 10.00 20.00\n2 Para 10.00 20.00'
       <<"G", "S", "T", ":", " ", "1", "8", "\n", "T", "o", "t", "a", "l", ":", " ", "1", "1", "8", "\n", "2", " ", "P", "a", "r", "a", " ", "1", "0", ".", "0", "0", " ", "2", "0", ".", "0", "0", "\n", "2", " ", "P", "a", "r", "a", " ", "1", "0", ".", "0", "0", " ", "2", "0", ".", "0", "0">>,
       \* 'Invoice 9999'
       <<"I", "n", "v", "o", "i", "c", "e", " ", "9", "9", "9", "9">>,
       \* 'Total 0'
       <<"T", "o", "t", "a", "l", " ", "0">>,
       \* 'Grand Total'
       <<"G", "r", "a", "n", "d", " ", "T", "o", "t", "a", "l">>,
       \* 'Patient:'
       <<"P", "a", "t", "i", "e", "n", "t", ":">>,
       \* 'No 1.2.3 .5 7.'
       <<"N", "o", " ", "1", ".", "2", ".", "3", " ", ".", "5", " ", "7", ".">> >>

RECURSIVE Join(_)
Join(fs) ==
    IF Len(fs) = 1 THEN fs[1]
    ELSE fs[1] \o <<"\n">> \o Join(Tail(fs))

Texts ==
    {Join([k \in DOMAIN f |-> Fragments[f[k]]]) :
        f \in UNION {[1..m -> DOMAIN Fragments] : m \in 1..MaxFrags}}

----------------------------------------------------------------------------
(* State.  prog is the program run on the text: "app" is                   *)
(* extract_structured_data of app.py, "api" is extract_key_details         *)
(* followed by validate_bill of medbill_guard_api.py.                      *)

VARIABLES prog, text, pc, lines, i,
          patient, hospital, date, gst, total, items,
          data, errors, fraud_score, ret

vars == <<prog, text, pc, lines, i, patient, hospital, date, gst, total, items,
          data, errors, fraud_score, ret>>

appVars == <<lines, i, patient, hospital, date, gst, total, items>>

apiVars == <<data, errors, fraud_score, ret>>

Init ==
    /\ prog \in {"app", "api"}
    /\ text \in Texts
    /\ pc = IF prog = "app" THEN "date" ELSE "extract"
    /\ lines = Split(text)
    /\ i = 1
    /\ patient = NotDetected
    /\ hospital = NotDetected
    /\ date = NotDetected
    /\ gst = 0
    /\ total = 0
    /\ items = <<>>
    /\ data = <<>>
    /\ errors = <<>>
    /\ fraud_score = 0
    /\ ret = <<>>

----------------------------------------------------------------------------
(* app.py: extract_structured_data                                         *)

\* any(word in lower for word in [...])
ContainsAny(lower, words) == \E w \in words : Contains(lower, w)

HospitalWords == {KwHospital, KwClinic, KwMedical}

TotalWords == {KwTotal, KwGrand, KwNet}

\* the patient after one line of the scan
ScanPatient(line, old) ==
    IF Contains(Lower(line), KwPatient) THEN Strip(line) ELSE old

\* the hospital after one line of the scan
ScanHospital(line, old) ==
    IF ContainsAny(Lower(line), HospitalWords) THEN Strip(line) ELSE old

\* ScanGst without the keyword test: any line with a number sets the gst
ScanGstAnyLine(line, old) ==
    LET numbers == Floats(FindNumbers(line))
    IN  IF numbers # <<>> THEN Max(numbers) ELSE old

\* the gst after one line of the scan
ScanGst(line, old) ==
    LET numbers == Floats(FindNumbers(line))
    IN  IF Contains(Lower(line), KwGst) /\ numbers # <<>> THEN Max(numbers) ELSE old

\* the total after one line of the scan
ScanTotal(line, old) ==
    LET numbers == Floats(FindNumbers(line))
    IN  IF ContainsAny(Lower(line), TotalWords) /\ numbers # <<>>
        THEN Max(numbers) ELSE old

\* FallbackTotal without the test total == 0
FallbackTotalAlways(t, scanned) ==
    LET all_numbers == FindNumbers(t)
    IN  IF all_numbers # <<>> THEN Max(Floats(all_numbers)) ELSE scanned

\* the total after the fallback
FallbackTotal(t, scanned) ==
    LET all_numbers == FindNumbers(t)
    IN  IF scanned = 0 /\ all_numbers # <<>> THEN Max(Floats(all_numbers)) ELSE scanned

\* int(float(n)) of a number in hundredths
IntOf(n) == n \div 100

\* the items after one line of the line-item loop
LineItems(line, old) ==
    LET numbers == FindNumbers(line)
        qty == IntOf(Float(numbers[1]))
        unit_price == Float(numbers[Len(numbers) - 1])
        line_total == Float(numbers[Len(numbers)])
        name == Strip(RemoveNumbers(line))
    IN  IF Len(numbers) >= 3 /\ 1 <= qty /\ qty <= 100 /\ Len(name) > 3
        THEN Append(old, [qty |-> qty, name |-> name,
                          unit_price |-> unit_price, line_total |-> line_total])
        ELSE old

\* the items after the whole line-item loop, from line k on
RECURSIVE ItemsFrom(_, _, _)
ItemsFrom(ls, k, acc) ==
    IF k > Len(ls) THEN acc ELSE ItemsFrom(ls, k + 1, LineItems(ls[k], acc))

ExtractedItems(t) == ItemsFrom(Split(t), 1, <<>>)

\* lines 53-59
DateDetection ==
    /\ prog = "app" /\ pc = "date"
    /\ date' = IF DateSearch(text) # <<>> THEN DateSearch(text) ELSE date
    /\ pc' = "scan"
    /\ UNCHANGED <<prog, text, lines, i, patient, hospital, gst, total, items>>
    /\ UNCHANGED apiVars

\* lines 61-77, one iteration
ScanLine ==
    /\ prog = "app" /\ pc = "scan" /\ i <= Len(lines)
    /\ patient' = ScanPatient(lines[i], patient)
    /\ hospital' = ScanHospital(lines[i], hospital)
    /\ gst' = ScanGst(lines[i], gst)
    /\ total' = ScanTotal(lines[i], total)
    /\ i' = i + 1
    /\ UNCHANGED <<prog, text, pc, lines, date, items>>
    /\ UNCHANGED apiVars

\* lines 79-83
Fallback ==
    /\ prog = "app" /\ pc = "scan" /\ i > Len(lines)
    /\ total' = FallbackTotal(text, total)
    /\ pc' = "items"
    /\ i' = 1
    /\ UNCHANGED <<prog, text, lines, patient, hospital, date, gst, items>>
    /\ UNCHANGED apiVars

\* lines 86-104, one iteration
ItemLine ==
    /\ prog = "app" /\ pc = "items" /\ i <= Len(lines)
    /\ items' = LineItems(lines[i], items)
    /\ i' = i + 1
    /\ UNCHANGED <<prog, text, pc, lines, patient, hospital, date, gst, total>>
    /\ UNCHANGED apiVars

\* line 106
ReturnRecord ==
    /\ prog = "app" /\ pc = "items" /\ i > Len(lines)
    /\ pc' = "done"
    /\ UNCHANGED <<prog, text, lines, i, patient, hospital, date, gst, total, items>>
    /\ UNCHANGED apiVars

----------------------------------------------------------------------------
(* medbill_guard_api.py: extract_key_details                               *)

\* m.group(1) if m else "Not Found"
GroupOrNotFound(m) == IF m.found THEN m.group ELSE NotFound

\* float(m.group(1)) if m else 0
ValueOrZero(m) == IF m.found THEN m.value ELSE 0

extract_key_details(t) ==
    [patient_name  |-> GroupOrNotFound(LabelSearch(t, LblPatientName)),
     hospital_name |-> GroupOrNotFound(LabelSearch(t, LblHospitalName)),
     date          |-> GroupOrNotFound(LabelSearch(t, LblDate)),
     gst           |-> ValueOrZero(AmountSearch(t, LblGST)),
     total         |-> ValueOrZero(AmountSearch(t, LblTotal))]

\* line 106
ExtractKeyDetails ==
    /\ prog = "api" /\ pc = "extract"
    /\ data' = extract_key_details(text)
    /\ pc' = "fields"
    /\ i' = 1
    /\ UNCHANGED <<prog, text, lines, patient, hospital, date, gst, total, items>>
    /\ UNCHANGED <<errors, fraud_score, ret>>

----------------------------------------------------------------------------
(* medbill_guard_api.py: validate_bill                                     *)

\* the keys of data, in the order data.items() yields them
Fields == <<"patient_name", "hospital_name", "date", "gst", "total">>

MissingPenalty == 20

GstPenalty == 30

DuplicatePenalty == 25

MaxScore == 100

\* IsMissing without the 0 of the list: value in ["Not Found", ""]
IsMissingIgnoringZero(field, value) ==
    IF field \in {"gst", "total"} THEN FALSE
    ELSE value = NotFound \/ value = <<>>

\* value in ["Not Found", "", 0]
IsMissing(field, value) ==
    IF field \in {"gst", "total"} THEN value = 0
    ELSE value = NotFound \/ value = <<>>

\* str(field)
FieldText ==
    [patient_name  |-> <<"p", "a", "t", "i", "e", "n", "t", "_", "n", "a", "m", "e">>,
     hospital_name |-> <<"h", "o", "s", "p", "i", "t", "a", "l", "_", "n", "a", "m", "e">>,
     date          |-> <<"d", "a", "t", "e">>,
     gst           |-> <<"g", "s", "t">>,
     total         |-> <<"t", "o", "t", "a", "l">>]

\* f"Missing or invalid {field}"
MissingError(field) ==
    <<"M", "i", "s", "s", "i", "n", "g", " ", "o", "r", " ", "i", "n", "v", "a", "l", "i", "d", " ">> \o FieldText[field]

GstError == <<"G", "S", "T", " ", "c", "a", "l", "c", "u", "l", "a", "t", "i", "o", "n", " ", "m", "i", "s", "m", "a", "t", "c", "h">>

DuplicateError ==
    <<"D", "u", "p", "l", "i", "c", "a", "t", "e", " ", "b", "i", "l", "l", "i", "n", "g", " ", "i", "t", "e", "m", "s", " ", "d", "e", "t", "e", "c", "t", "e", "d">>

Abs(n) == IF n < 0 THEN 0 - n ELSE n

\* abs(subtotal * 0.18 - data["gst"]) > 5, both amounts in hundredths
GstMismatch(subtotal, g) == Abs(18 * subtotal - 100 * g) > 5 * 100 * 100

\* HasDuplicates as len(items) > 1
HasDuplicatesByCount(found) == Len(found) > 1

\* len(items) != len(set(items))
HasDuplicates(found) == Len(found) # Cardinality(Range(found))

\* Clamp without the min
ClampUnbounded(score) == score

\* min(fraud_score, 100)
Clamp(score) == IF score < MaxScore THEN score ELSE MaxScore

\* lines 62-65, one iteration
MissingField ==
    /\ prog = "api" /\ pc = "fields" /\ i <= Len(Fields)
    /\ IF IsMissing(Fields[i], data[Fields[i]])
       THEN /\ errors' = Append(errors, MissingError(Fields[i]))
            /\ fraud_score' = fraud_score + MissingPenalty
       ELSE UNCHANGED <<errors, fraud_score>>
    /\ i' = i + 1
    /\ UNCHANGED <<prog, text, pc, lines, patient, hospital, date, gst, total, items>>
    /\ UNCHANGED <<data, ret>>

\* GstValidation with the penalty outside the mismatch test
GstValidationDedented ==
    /\ prog = "api" /\ pc = "fields" /\ i > Len(Fields)
    /\ LET amount_match == AmountSearch(text, LblSubTotal)
       IN  /\ IF amount_match.found /\ GstMismatch(amount_match.value, data.gst)
              THEN errors' = Append(errors, GstError)
              ELSE UNCHANGED errors
           /\ fraud_score' = IF amount_match.found THEN fraud_score + GstPenalty
                             ELSE fraud_score
    /\ pc' = "duplicates"
    /\ UNCHANGED <<prog, text, lines, i, patient, hospital, date, gst, total, items>>
    /\ UNCHANGED <<data, ret>>

\* lines 67-74
GstValidation ==
    /\ prog = "api" /\ pc = "fields" /\ i > Len(Fields)
    /\ LET amount_match == AmountSearch(text, LblSubTotal)
       IN  IF amount_match.found /\ GstMismatch(amount_match.value, data.gst)
           THEN /\ errors' = Append(errors, GstError)
                /\ fraud_score' = fraud_score + GstPenalty
           ELSE UNCHANGED <<errors, fraud_score>>
    /\ pc' = "duplicates"
    /\ UNCHANGED <<prog, text, lines, i, patient, hospital, date, gst, total, items>>
    /\ UNCHANGED <<data, ret>>

\* lines 76-80
DuplicateItems ==
    /\ prog = "api" /\ pc = "duplicates"
    /\ IF HasDuplicates(FindItems(text))
       THEN /\ errors' = Append(errors, DuplicateError)
            /\ fraud_score' = fraud_score + DuplicatePenalty
       ELSE UNCHANGED <<errors, fraud_score>>
    /\ pc' = "return"
    /\ UNCHANGED <<prog, text, lines, i, patient, hospital, date, gst, total, items>>
    /\ UNCHANGED <<data, ret>>

\* line 82
ReturnValidation ==
    /\ prog = "api" /\ pc = "return"
    /\ ret' = [errors |-> errors, fraud_score |-> Clamp(fraud_score)]
    /\ pc' = "done"
    /\ UNCHANGED <<prog, text, lines, i, patient, hospital, date, gst, total, items>>
    /\ UNCHANGED <<data, errors, fraud_score>>

----------------------------------------------------------------------------

Next ==
    \/ DateDetection
    \/ ScanLine
    \/ Fallback
    \/ ItemLine
    \/ ReturnRecord
    \/ ExtractKeyDetails
    \/ MissingField
    \/ GstValidation
    \/ DuplicateItems
    \/ ReturnValidation

Spec == Init /\ [][Next]_vars

----------------------------------------------------------------------------
(* Properties of validate_bill.                                            *)

Validated == prog = "api" /\ pc = "done"

\* the fields the missing-fields check fires for
MissingFields == {k \in DOMAIN Fields : IsMissing(Fields[k], data[Fields[k]])}

\* the GST check fires
GstFires ==
    /\ AmountSearch(text, LblSubTotal).found
    /\ GstMismatch(AmountSearch(text, LblSubTotal).value, data.gst)

\* the duplicate check fires: two matched item strings are identical
DuplicateFires ==
    \E a, b \in DOMAIN FindItems(text) : a < b /\ FindItems(text)[a] = FindItems(text)[b]

\* the sum of the penalties of all checks that fire on the record
PenaltySum ==
    MissingPenalty * Cardinality(MissingFields)
        + (IF GstFires THEN GstPenalty ELSE 0)
        + (IF DuplicateFires THEN DuplicatePenalty ELSE 0)

\* C1: the fraud_score validate_bill returns is an integer in [0, 100] and
\* equals min(100, sum of the penalties of all checks that fired); when the
\* sum exceeds 100 it is exactly 100.
C1_ScoreIsClampedSum ==
    Validated =>
        /\ ret.fraud_score \in 0..100
        /\ ret.fraud_score = IF PenaltySum > 100 THEN 100 ELSE PenaltySum

\* C1 witness: a validated bill whose penalties sum to more than 100
C1_Witness == Validated /\ PenaltySum > 100 /\ ret.fraud_score = 100

\* the penalty of the check an error string names
PenaltyOf(e) ==
    IF e = GstError THEN GstPenalty
    ELSE IF e = DuplicateError THEN DuplicatePenalty
    ELSE MissingPenalty

RECURSIVE SumPenalties(_)
SumPenalties(es) ==
    IF es = <<>> THEN 0 ELSE PenaltyOf(Head(es)) + SumPenalties(Tail(es))

\* one step of validate_bill: nothing changes, or exactly one error is
\* appended and the score grows by that error's penalty
ScoreStep ==
    \/ errors' = errors /\ fraud_score' = fraud_score
    \/ /\ Len(errors') = Len(errors) + 1
       /\ SubSeq(errors', 1, Len(errors)) = errors
       /\ PenaltyOf(errors'[Len(errors')]) > 0
       /\ fraud_score' = fraud_score + PenaltyOf(errors'[Len(errors')])

\* C10: while validate_bill applies its checks the running score never
\* decreases, every step leaves errors and score unchanged or appends one
\* error and adds that check's positive penalty; the returned errors list
\* is empty exactly when the returned fraud_score is 0, and the unclamped
\* score is the sum of the penalties of the listed errors.
C10_ScoreTracksErrors ==
    /\ [][prog = "api" => (fraud_score' >= fraud_score /\ ScoreStep)]_vars
    /\ [](prog = "api" => fraud_score = SumPenalties(errors))
    /\ [](Validated => ((ret.errors = <<>>) <=> (ret.fraud_score = 0)))

\* C10 witness: a validated bill with errors of two different penalties
C10_Witness ==
    /\ Validated
    /\ \E a, b \in DOMAIN ret.errors : PenaltyOf(ret.errors[a]) # PenaltyOf(ret.errors[b])
    /\ ret.fraud_score < 100

DuplicatesChecked == prog = "api" /\ pc \in {"return", "done"}

\* two line items of the text share their cleaned item_name
SharedItemName ==
    \E a, b \in DOMAIN ExtractedItems(text) :
        a < b /\ ExtractedItems(text)[a].name = ExtractedItems(text)[b].name

\* the score without the share of the duplicate check
ScoreBeforeDuplicates ==
    MissingPenalty * Cardinality(MissingFields) + (IF GstFires THEN GstPenalty ELSE 0)

\* the errors the duplicate check has appended
DuplicateErrors == {k \in DOMAIN errors : errors[k] = DuplicateError}

Offending(item) == Abs(item.qty * item.unit_price - item.line_total) > 10 * 100

LineMismatchError(name) ==
    <<"L", "i", "n", "e", " ", "m", "i", "s", "m", "a", "t", "c", "h", ":", " ">> \o name

\* C6: for every line item with abs(quantity*unit_price - line_total)
\* beyond the tolerance, validation records a line-mismatch error naming
\* the item (and +10); items within the tolerance add none.
C6_LineMismatchReported ==
    Validated =>
        \A k \in DOMAIN ExtractedItems(text) :
            Offending(ExtractedItems(text)[k]) <=>
                LineMismatchError(ExtractedItems(text)[k].name) \in Range(ret.errors)

----------------------------------------------------------------------------
(* Properties of the extraction.                                           *)

Extracted == prog = "app" /\ pc = "done"

\* C3: every line item of the output has quantity in [1,100], unit_price
\* in (0,100000] and line_total in (0,1000000] (amounts in hundredths).
C3_ItemsWithinBounds ==
    \A k \in DOMAIN items :
        /\ items[k].qty \in 1..100
        /\ items[k].unit_price > 0 /\ items[k].unit_price <= 100000 * 100
        /\ items[k].line_total > 0 /\ items[k].line_total <= 1000000 * 100


KwSub == <<"s", "u", "b">>

\* the line contains a total keyword
HasTotalWord(line) == ContainsAny(Lower(line), TotalWords)

\* the value a line offers: its maximum numeric token, 0 when it has none
LineValue(line) ==
    IF FindNumbers(line) = <<>> THEN 0 ELSE Max(Floats(FindNumbers(line)))

\* the total lines of the text: a total keyword, a number, and no "sub"
TotalLines ==
    {k \in DOMAIN lines :
        /\ HasTotalWord(lines[k])
        /\ FindNumbers(lines[k]) # <<>>
        /\ ~Contains(Lower(lines[k]), KwSub)}

\* the lines holding a subtotal: a total keyword, a number, and "sub"
SubtotalLines ==
    {k \in DOMAIN lines :
        /\ HasTotalWord(lines[k])
        /\ FindNumbers(lines[k]) # <<>>
        /\ Contains(Lower(lines[k]), KwSub)}

\* C7: total detection never takes its value from a line containing "sub":
\* with a subtotal line and a total line in the text, in either order, the
\* extracted total is the maximum numeric token of the total line.
C7_SubtotalNeverTotal ==
    /\ (Extracted /\ Cardinality(TotalLines) = 1 /\ SubtotalLines # {}) =>
          \A k \in TotalLines : LineValue(lines[k]) > 0 => total = LineValue(lines[k])
    /\ (Validated /\ Cardinality(TotalLines) = 1 /\ SubtotalLines # {}) =>
          \A k \in TotalLines : data.total = LineValue(lines[k])

\* the lines containing a total keyword
KeywordLines == {k \in DOMAIN lines : HasTotalWord(lines[k])}

\* the maximum numeric token of the whole text, 0 when it has none
DocumentMax == LineValue(text)

\* C8 as written: the whole-document fallback is applied if and only if no
\* line matched a total keyword; when a line matched, the total is the value
\* taken from a matching line, also when that value is 0 or the line has no
\* number.
C8_FallbackIffNoKeywordLine ==
    Extracted =>
        IF KeywordLines = {} THEN total = DocumentMax
        ELSE \E k \in KeywordLines : total = LineValue(lines[k])

\* the lines the scan takes a total from: a total keyword and a number
MatchedLines == {k \in KeywordLines : FindNumbers(lines[k]) # <<>>}

\* the total the scan over the lines leaves: the value of the last matched
\* line, 0 when no line matched
ScannedTotal ==
    IF MatchedLines = {} THEN 0
    ELSE LineValue(lines[CHOOSE k \in MatchedLines : \A j \in MatchedLines : j <= k])

\* C8 amended: the whole-document fallback is applied if and only if the scan
\* left the total at 0 (no line with a total keyword carried a number, or the
\* last such line's maximum is 0); when the last total-keyword line with a
\* number has a positive maximum, the returned total is that maximum and is
\* not replaced by a larger number of another line.
C8_FallbackIffScanLeftZero ==
    Extracted => total = IF ScannedTotal = 0 THEN DocumentMax ELSE ScannedTotal

\* C8 witness: a matched total line with a positive value, and a larger
\* number elsewhere in the text
C8_Witness ==
    Extracted /\ ScannedTotal > 0 /\ DocumentMax > ScannedTotal /\ total = ScannedTotal

\* the letters and spaces of a line, trimmed
RECURSIVE LettersOnly(_)
LettersOnly(s) ==
    IF s = <<>> THEN <<>>
    ELSE (IF IsNameChar(Head(s)) THEN <<Head(s)>> ELSE <<>>) \o LettersOnly(Tail(s))

\* a line accepted for the patient name: the keyword, and at least five
\* letters and spaces left after stripping
AcceptedPatient(line) ==
    Contains(Lower(line), KwPatient) /\ Len(Strip(LettersOnly(line))) >= 5

AcceptedHospital(line) ==
    ContainsAny(Lower(line), HospitalWords) /\ Len(Strip(LettersOnly(line))) >= 5

\* C9: the patient name and the hospital name are each fixed by the first
\* accepted line: once a field has left its sentinel no later line changes
\* it, and a field no line is accepted for stays at the sentinel.
C9_FirstMatchWins ==
    /\ [][prog = "app" =>
            /\ patient # NotDetected => patient' = patient
            /\ hospital # NotDetected => hospital' = hospital]_vars
    /\ [](Extracted =>
            /\ (\A k \in DOMAIN lines : ~AcceptedPatient(lines[k])) => patient = NotDetected
            /\ (\A k \in DOMAIN lines : ~AcceptedHospital(lines[k])) => hospital = NotDetected)


\* no line of the text holds a tax figure: the keyword and a number
NoTaxFigure ==
    \A k \in DOMAIN lines :
        ~(Contains(Lower(lines[k]), KwGst) /\ FindNumbers(lines[k]) # <<>>)

\* no line of the text holds a total figure: a total keyword and a number
NoTotalFigure == MatchedLines = {}

\* the text holds no GST label with a number anywhere
NoGstLabelFigure == ~Contains(text, LblGST) \/ FindNumbers(text) = <<>>

\* the text holds no Total label with a number anywhere
NoTotalLabelFigure == ~Contains(text, LblTotal) \/ FindNumbers(text) = <<>>

\* extraction is never stuck short of its return: every position is one a
\* step leaves, and the loops stay within the lines
NeverStuck ==
    /\ prog = "app" => pc \in {"date", "scan", "items", "done"} /\ i \in 1..(Len(lines) + 1)
    /\ prog = "api" => pc \in {"extract", "fields", "duplicates", "return", "done"}

====
